---- MODULE Spec2Model ----
(***************************************************************************)
(* Wired connection manager of ALVR (alvr/adb/src/lib.rs).                  *)
(*                                                                         *)
(* WiredConnection::setup is one non-blocking probe-and-react pass over a  *)
(* device reached through the adb bridge.  The manager keeps two optional  *)
(* instants; everything else lives on the device or comes with the call.   *)
(* The bridge commands (module `commands`) are modelled at their interface: *)
(* each request is appended to the log of the call and may fail.           *)
(***************************************************************************)
EXTENDS Integers, Sequences, FiniteSets, TLC

VARIABLES
    initial_autolaunch_delay,   \* Option<Instant> of the manager
    post_autolaunch_delay,      \* Option<Instant> of the manager
    clock,                      \* the monotonic clock read by Instant::now()
    is_stable,                  \* alvr_common::is_stable() of this build
    devices,                    \* what `adb devices` lists: Seq of Option<serial>
    forwards,                   \* local ports in the forward table of the device
    installed,                  \* package id -> Option<version> on the device
    granted,                    \* <<package id, permission>> pairs granted
    running,                    \* package ids that have a process
    resumed,                    \* package ids whose activity is resumed
    launched,                   \* history: instant of the last start-application that set the post-launch timer
    starts,                     \* history: start-application requests since the last call that cleared the post-launch timer
    last,                       \* history: Option<record of the setup call that just returned>
    prev                        \* history: Option<record of the setup call right before `last`>

vars == << initial_autolaunch_delay, post_autolaunch_delay, clock, is_stable,
           devices, forwards, installed, granted, running, resumed,
           launched, starts, last, prev >>

---------------------------------------------------------------------------
(* Option<T> *)
None == << >>
Some(x) == << x >>
IsSome(o) == o # << >>
Unwrap(o) == o[1]

---------------------------------------------------------------------------
(* Bounds of the model *)
MaxClock == 20

(* Durations of lib.rs *)
PRE_AUTOLAUNCH_SECS == 15
POST_AUTOLAUNCH_SECS == 5

(* The clock advances in steps of this many seconds between calls. *)
TickSteps == {5}

---------------------------------------------------------------------------
(* Strings that the code inspects are sequences of characters. *)
LOOPBACK_PREFIX == << "1","2","7",".","0",".","0",".","1" >>
SERIAL_LOOPBACK == LOOPBACK_PREFIX \o << ":","5","5","5","5" >>
SERIAL_USB == << "1","W","M","H","H" >>
SERIAL_NET == << "1","2","7",".","0",".","0",".","2" >>

starts_with(s, p) == Len(s) >= Len(p) /\ SubSeq(s, 1, Len(p)) = p

ToAsciiLower(ch) ==
    CASE ch = "A" -> "a" [] ch = "B" -> "b" [] ch = "C" -> "c"
      [] ch = "D" -> "d" [] ch = "E" -> "e" [] ch = "F" -> "f"
      [] OTHER -> ch

ToAsciiUpper(ch) ==
    CASE ch = "a" -> "A" [] ch = "b" -> "B" [] ch = "c" -> "C"
      [] ch = "d" -> "D" [] ch = "e" -> "E" [] ch = "f" -> "F"
      [] OTHER -> ch

MapChars(s, F(_)) == [i \in 1..Len(s) |-> F(s[i])]

eq_ignore_ascii_case_exact(a, b) == a = b

eq_ignore_ascii_case(a, b) == MapChars(a, ToAsciiLower) = MapChars(b, ToAsciiLower)

---------------------------------------------------------------------------
(* Package identifiers (alvr_system_info) and the custom flavor's name *)
PACKAGE_NAME_STORE == "alvr.client"
PACKAGE_NAME_GITHUB_STABLE == "alvr.client.stable"
PACKAGE_NAME_GITHUB_DEV == "alvr.client.dev"
CUSTOM_NAME == "ai.yaak.client"

Packages == { PACKAGE_NAME_STORE, PACKAGE_NAME_GITHUB_STABLE,
              PACKAGE_NAME_GITHUB_DEV, CUSTOM_NAME }

ClientFlavors == { <<"Store">>, <<"Custom", CUSTOM_NAME>> }

get_application_ids_swapped(flavor, stable) ==
    CASE flavor[1] = "Store" ->
            IF stable THEN << PACKAGE_NAME_GITHUB_STABLE, PACKAGE_NAME_STORE >>
                      ELSE << PACKAGE_NAME_GITHUB_DEV >>
      [] flavor[1] = "Github" ->
            IF stable THEN << PACKAGE_NAME_STORE, PACKAGE_NAME_GITHUB_STABLE >>
                      ELSE << PACKAGE_NAME_GITHUB_DEV >>
      [] flavor[1] = "Custom" ->
            IF stable THEN << PACKAGE_NAME_STORE, flavor[2], PACKAGE_NAME_GITHUB_STABLE >>
                      ELSE << PACKAGE_NAME_GITHUB_DEV, flavor[2] >>

get_application_ids(flavor, stable) ==
    CASE flavor[1] = "Store" ->
            IF stable THEN << PACKAGE_NAME_STORE, PACKAGE_NAME_GITHUB_STABLE >>
                      ELSE << PACKAGE_NAME_GITHUB_DEV >>
      [] flavor[1] = "Github" ->
            IF stable THEN << PACKAGE_NAME_GITHUB_STABLE, PACKAGE_NAME_STORE >>
                      ELSE << PACKAGE_NAME_GITHUB_DEV >>
      [] flavor[1] = "Custom" ->
            IF stable THEN << flavor[2], PACKAGE_NAME_STORE, PACKAGE_NAME_GITHUB_STABLE >>
                      ELSE << flavor[2], PACKAGE_NAME_GITHUB_DEV >>

---------------------------------------------------------------------------
(* The host file system: paths are sequences of components, "/" first when *)
(* absolute.  A package file carries the package it installs and a version; *)
(* its bytes are that pair.                                                *)
Layout == [ static_resources_dir |-> << "/", "res" >> ]

Files ==
    ( << "/", "res", "client.apk" >> :> [ pkg |-> PACKAGE_NAME_STORE, ver |-> 2 ] )

is_relative(path) == path = << >> \/ path[1] # "/"

join(base, path) == IF is_relative(path) THEN base \o path ELSE path

exists(path) == path \in DOMAIN Files

(* SHA-1 as an injective table from the bytes of a package file to a digest; *)
(* format!("{hash:x}") prints it in lower-case hex.                        *)
Sha1Hex(apk) ==
    << CASE apk.pkg = PACKAGE_NAME_STORE -> "a"
         [] apk.pkg = PACKAGE_NAME_GITHUB_STABLE -> "b"
         [] apk.pkg = PACKAGE_NAME_GITHUB_DEV -> "c"
         [] OTHER -> "d",
       IF apk.ver = 1 THEN "1" ELSE "2",
       "f" >>

---------------------------------------------------------------------------
(* The bridge (module `commands`).  A setup call is evaluated over a       *)
(* context c: the manager's two timers, the device as the bridge shows it, *)
(* the clock, the requests issued so far (c.log) and the result (c.ret,    *)
(* "" while the call is still running).  c.failAt is the position in the   *)
(* log of the one request that fails in this call (0: none fails).         *)
Req(cmd, pkg, arg) == [ cmd |-> cmd, pkg |-> pkg, arg |-> arg ]

Call(c, req) == [ c EXCEPT !.log = Append(@, req) ]

Failed(c) == Len(c.log) = c.failAt

Err(c) == [ c EXCEPT !.ret = "Err" ]

NotReady(c, reason) == [ c EXCEPT !.ret = reason ]

Then(c, F(_)) == IF c.ret # "" THEN c ELSE F(c)

(* Effects of the requests on the device, when they succeed *)
forward_port(c, port) == [ c EXCEPT !.fwd = @ \cup { port } ]

uninstall_package(c, pkg) ==
    [ c EXCEPT !.inst = [ @ EXCEPT ![pkg] = None ],
               !.granted = { g \in @ : g[1] # pkg },
               !.running = @ \ { pkg },
               !.resumed = @ \ { pkg } ]

install_package(c, path) ==
    LET apk == Files[path]
    IN [ c EXCEPT !.inst = [ @ EXCEPT ![apk.pkg] = Some(apk.ver) ],
                  !.running = @ \ { apk.pkg },
                  !.resumed = @ \ { apk.pkg } ]

grant_package_permission(c, pkg, perm) ==
    IF IsSome(c.inst[pkg]) THEN [ c EXCEPT !.granted = @ \cup { << pkg, perm >> } ] ELSE c

get_package_sha1(c, pkg, hexUpper) ==
    IF IsSome(c.inst[pkg])
    THEN LET hex == Sha1Hex([ pkg |-> pkg, ver |-> Unwrap(c.inst[pkg]) ])
         IN Some(IF hexUpper THEN MapChars(hex, ToAsciiUpper) ELSE hex)
    ELSE None

is_package_installed(c, pkg) == IsSome(c.inst[pkg])

get_process_id(c, pkg) == pkg \in c.running

is_activity_resumed(c, pkg) == pkg \in c.resumed

---------------------------------------------------------------------------
(* lib.rs 48-58: the first listed serial that is present and does not start *)
(* with the loopback prefix; none: clear both timers.                      *)
FirstWired_any(devs) ==
    LET serials == SelectSeq(devs, IsSome)
    IN IF serials = << >> THEN None ELSE serials[1]

FirstWired(devs) ==
    LET serials == SelectSeq(devs, IsSome)
        wired == SelectSeq(serials, LAMBDA s : ~starts_with(Unwrap(s), LOOPBACK_PREFIX))
    IN IF wired = << >> THEN None ELSE wired[1]

DeviceDiscovery_keep(c) ==
    LET c1 == Call(c, Req("list_devices", "", << >>))
    IN IF Failed(c1) THEN Err(c1)
       ELSE LET found == FirstWired(c.devices)
            IN IF IsSome(found)
               THEN [ c1 EXCEPT !.serial = found ]
               ELSE NotReady([ c1 EXCEPT !.init = None ], "No wired devices found")

DeviceDiscovery(c) ==
    LET c1 == Call(c, Req("list_devices", "", << >>))
    IN IF Failed(c1) THEN Err(c1)
       ELSE LET found == FirstWired(c.devices)
            IN IF IsSome(found)
               THEN [ c1 EXCEPT !.serial = found ]
               ELSE NotReady([ c1 EXCEPT !.init = None, !.post = None ],
                             "No wired devices found")

(* lib.rs 60-67: start the initial-wait episode unless one is running *)
EpisodeTimer_restart(c) == [ c EXCEPT !.init = Some(c.now) ]

EpisodeTimer(c) ==
    IF IsSome(c.init) THEN c ELSE [ c EXCEPT !.init = Some(c.now) ]

(* lib.rs 69-81: forward every required port that is not forwarded yet.    *)
(* The required ports are a HashSet, so they are iterated in either order. *)
RECURSIVE ForwardAll(_, _)
ForwardAll(c, ports) ==
    IF ports = << >> THEN c
    ELSE LET c1 == Call(c, Req("forward_port", "", << ports[1] >>))
         IN IF Failed(c1) THEN Err(c1)
            ELSE ForwardAll(forward_port(c1, ports[1]), Tail(ports))

IterOrder(S, flip) ==
    IF Cardinality(S) = 0 THEN << >>
    ELSE IF Cardinality(S) = 1 THEN << CHOOSE x \in S : TRUE >>
    ELSE LET lo == CHOOSE x \in S : \A y \in S : x <= y
             hi == CHOOSE x \in S : \A y \in S : x >= y
         IN IF flip THEN << hi, lo >> ELSE << lo, hi >>

PortReconciliation_all(c, args, flip) ==
    LET ports == { args.control_port, args.stream_port }
        c1 == Call(c, Req("list_forwarded_ports", "", << >>))
    IN IF Failed(c1) THEN Err(c1)
       ELSE ForwardAll(c1, IterOrder(ports, flip))

PortReconciliation(c, args, flip) ==
    LET ports == { args.control_port, args.stream_port }
        c1 == Call(c, Req("list_forwarded_ports", "", << >>))
    IN IF Failed(c1) THEN Err(c1)
       ELSE LET forwarded_ports == c1.fwd
                missing_ports == ports \ forwarded_ports
            IN ForwardAll(c1, IterOrder(missing_ports, flip))

---------------------------------------------------------------------------
(* lib.rs 85-137: optional auto-install of the package file *)
RECURSIVE GrantAll(_, _, _)
GrantAll(c, application_id, permissions) ==
    IF permissions = << >> THEN c
    ELSE LET c1 == Call(c, Req("grant_package_permission", application_id, << permissions[1] >>))
         IN IF Failed(c1) THEN Err(c1)
            ELSE GrantAll(grant_package_permission(c1, application_id, permissions[1]),
                          application_id, Tail(permissions))

InstallAndGrant(c, application_id, path, permissions) ==
    LET c1 == Call(c, Req("install_package", "", path))
    IN IF Failed(c1) THEN Err(c1)
       ELSE GrantAll(install_package(c1, path), application_id, permissions)

AutoInstall(c, args, hexUpper) ==
    IF ~IsSome(args.client_autoinstall_path) THEN c
    ELSE LET client_autoinstall == Unwrap(args.client_autoinstall_path)
             path == join(Layout.static_resources_dir,
                          client_autoinstall.client_package_location)
             application_ids == get_application_ids(args.client_type, c.stable)
         IN IF ~(exists(path) /\ application_ids # << >>) THEN c
            ELSE LET application_id == application_ids[1]
                     c1 == Call(c, Req("get_package_sha1", application_id, << >>))
                 IN IF Failed(c1) THEN Err(c1)
                    ELSE LET installed_sha1 == get_package_sha1(c1, application_id, hexUpper)
                         IN IF IsSome(installed_sha1)
                            THEN LET c2 == Call(c1, Req("read_file", "", path))
                                 IN IF Failed(c2) THEN Err(c2)
                                    ELSE LET hash_str == Sha1Hex(Files[path])
                                         IN IF ~eq_ignore_ascii_case(Unwrap(installed_sha1), hash_str)
                                            THEN LET c3 == Call(c2, Req("uninstall_package", application_id, << >>))
                                                 IN IF Failed(c3) THEN Err(c3)
                                                    ELSE InstallAndGrant(
                                                            uninstall_package(c3, application_id),
                                                            application_id, path,
                                                            client_autoinstall.permissions)
                                            ELSE c2
                            ELSE InstallAndGrant(c1, application_id, path,
                                                 client_autoinstall.permissions)

get_process_name_unchecked(c, application_ids) ==
    IF application_ids = << >> THEN c
    ELSE [ Call(c, Req("is_package_installed", application_ids[1], << >>))
             EXCEPT !.process_name = Some(application_ids[1]) ]

(* lib.rs 220-232: the first candidate the bridge reports as installed; a   *)
(* failing is_package_installed counts as "not installed" (is_ok_and).      *)
RECURSIVE get_process_name(_, _)
get_process_name(c, application_ids) ==
    IF application_ids = << >> THEN c
    ELSE LET name == application_ids[1]
             c1 == Call(c, Req("is_package_installed", name, << >>))
         IN IF ~Failed(c1) /\ is_package_installed(c1, name)
            THEN [ c1 EXCEPT !.process_name = Some(name) ]
            ELSE get_process_name(c1, Tail(application_ids))

(* lib.rs 139-144 *)
CandidateSelection_reset(c, args) ==
    LET c1 == get_process_name(c, get_application_ids(args.client_type, c.stable))
    IN IF IsSome(c1.process_name) THEN c1
       ELSE NotReady([ c1 EXCEPT !.post = None ], "No suitable ALVR client is installed")

CandidateSelection(c, args) ==
    LET c1 == get_process_name(c, get_application_ids(args.client_type, c.stable))
    IN IF IsSome(c1.process_name) THEN c1
       ELSE NotReady(c1, "No suitable ALVR client is installed")

(* lib.rs 147-164: no process is running *)
ProcessAbsent_le(c, args) ==
    IF args.client_autolaunch /\ ~IsSome(c.post)
    THEN IF c.now - Unwrap(c.init) <= PRE_AUTOLAUNCH_SECS
         THEN NotReady(c, "Awaiting pre autolaunch delay")
         ELSE LET c1 == Call(c, Req("start_application", Unwrap(c.process_name), << >>))
              IN IF Failed(c1) THEN Err(c1)
                 ELSE NotReady([ c1 EXCEPT !.post = Some(c.now) ], "Starting ALVR client")
    ELSE NotReady(c, "ALVR client is not running")

ProcessAbsent_setFirst(c, args) ==
    IF args.client_autolaunch /\ ~IsSome(c.post)
    THEN IF c.now - Unwrap(c.init) < PRE_AUTOLAUNCH_SECS
         THEN NotReady(c, "Awaiting pre autolaunch delay")
         ELSE LET c1 == Call([ c EXCEPT !.post = Some(c.now) ],
                             Req("start_application", Unwrap(c.process_name), << >>))
              IN IF Failed(c1) THEN Err(c1)
                 ELSE NotReady(c1, "Starting ALVR client")
    ELSE NotReady(c, "ALVR client is not running")

ProcessAbsent_relaunch(c, args) ==
    IF args.client_autolaunch
    THEN IF c.now - Unwrap(c.init) < PRE_AUTOLAUNCH_SECS
         THEN NotReady(c, "Awaiting pre autolaunch delay")
         ELSE LET c1 == Call(c, Req("start_application", Unwrap(c.process_name), << >>))
              IN IF Failed(c1) THEN Err(c1)
                 ELSE NotReady([ c1 EXCEPT !.post = Some(c.now) ], "Starting ALVR client")
    ELSE NotReady(c, "ALVR client is not running")

ProcessAbsent_noLaunch(c, args) == NotReady(c, "ALVR client is not running")

ProcessAbsent(c, args) ==
    IF args.client_autolaunch /\ ~IsSome(c.post)
    THEN IF c.now - Unwrap(c.init) < PRE_AUTOLAUNCH_SECS
         THEN NotReady(c, "Awaiting pre autolaunch delay")
         ELSE LET c1 == Call(c, Req("start_application", Unwrap(c.process_name), << >>))
              IN IF Failed(c1) THEN Err(c1)
                 ELSE NotReady([ c1 EXCEPT !.post = Some(c.now) ], "Starting ALVR client")
    ELSE NotReady(c, "ALVR client is not running")

(* lib.rs 170-180: the process runs and its activity is resumed *)
PostLaunchGrace_skip(c) == [ c EXCEPT !.post = None, !.ret = "Ready" ]

PostLaunchGrace(c) ==
    IF IsSome(c.post)
    THEN IF c.now - Unwrap(c.post) < POST_AUTOLAUNCH_SECS
         THEN NotReady(c, "Awaiting post autolaunch delay")
         ELSE [ c EXCEPT !.post = None, !.ret = "Ready" ]
    ELSE [ c EXCEPT !.ret = "Ready" ]

ReadinessLadder_pausedReady(c, args) ==
    LET process_name == Unwrap(c.process_name)
        c1 == Call(c, Req("get_process_id", process_name, << >>))
    IN IF Failed(c1) THEN Err(c1)
       ELSE IF ~get_process_id(c1, process_name)
            THEN ProcessAbsent([ c1 EXCEPT !.pid = Some(FALSE) ], args)
            ELSE LET c2 == Call([ c1 EXCEPT !.pid = Some(TRUE) ],
                                Req("is_activity_resumed", process_name, << >>))
                 IN IF Failed(c2) THEN Err(c2)
                    ELSE PostLaunchGrace([ c2 EXCEPT !.act = Some(is_activity_resumed(c2, process_name)) ])

(* lib.rs 146-181 *)
ReadinessLadder(c, args) ==
    LET process_name == Unwrap(c.process_name)
        c1 == Call(c, Req("get_process_id", process_name, << >>))
    IN IF Failed(c1) THEN Err(c1)
       ELSE IF ~get_process_id(c1, process_name)
            THEN ProcessAbsent([ c1 EXCEPT !.pid = Some(FALSE) ], args)
            ELSE LET c2 == Call([ c1 EXCEPT !.pid = Some(TRUE) ],
                                Req("is_activity_resumed", process_name, << >>))
                 IN IF Failed(c2) THEN Err(c2)
                    ELSE IF ~is_activity_resumed(c2, process_name)
                         THEN NotReady([ c2 EXCEPT !.act = Some(FALSE) ], "ALVR client is paused")
                         ELSE PostLaunchGrace([ c2 EXCEPT !.act = Some(TRUE) ])

setup_selectFirst(c, args, flip, hexUpper) ==
    LET s1 == DeviceDiscovery(c)
        s2 == Then(s1, EpisodeTimer)
        s3 == Then(s2, LAMBDA x : PortReconciliation(x, args, flip))
        s5 == Then(s3, LAMBDA x : CandidateSelection(x, args))
        s6 == Then(s5, LAMBDA x : AutoInstall(x, args, hexUpper))
    IN Then(s6, LAMBDA x : ReadinessLadder(x, args))

(* lib.rs 39-182 *)
setup(c, args, flip, hexUpper) ==
    LET s1 == DeviceDiscovery(c)
        s2 == Then(s1, EpisodeTimer)
        s3 == Then(s2, LAMBDA x : PortReconciliation(x, args, flip))
        s5 == Then(s3, LAMBDA x : AutoInstall(x, args, hexUpper))
        s6 == Then(s5, LAMBDA x : CandidateSelection(x, args))
    IN Then(s6, LAMBDA x : ReadinessLadder(x, args))

---------------------------------------------------------------------------
(* Inputs *)
Ports == { 9943, 9944 }

BuildChannels == { TRUE }

DeviceLists ==
    { << >>,
      << None, Some(SERIAL_LOOPBACK) >>,
      << Some(SERIAL_LOOPBACK), Some(SERIAL_USB), Some(SERIAL_NET) >> }

(* The clients a user sideloads, always an older build than the package file *)
UserPackages == { PACKAGE_NAME_STORE, CUSTOM_NAME }

AutoInstallConfigs ==
    { [ client_package_location |-> << "client.apk" >>,
        permissions |-> << "RECORD_AUDIO", "CAMERA" >> ] }

Args ==
    [ control_port : { 9943 },
      stream_port : Ports,
      client_type : ClientFlavors,
      client_autolaunch : BOOLEAN,
      client_autoinstall_path : { None } \cup { Some(d) : d \in AutoInstallConfigs } ]

(* The context of a call made now *)
Enter(failAt) ==
    [ init |-> initial_autolaunch_delay, post |-> post_autolaunch_delay,
      now |-> clock, stable |-> is_stable, devices |-> devices,
      fwd |-> forwards, inst |-> installed, granted |-> granted,
      running |-> running, resumed |-> resumed,
      log |-> << >>, failAt |-> failAt, ret |-> "",
      serial |-> None, process_name |-> None, pid |-> None, act |-> None ]

(* What is kept of a call that returned *)
CallRecord(args, c0, r) ==
    [ args |-> args, ret |-> r.ret, log |-> r.log, failAt |-> r.failAt,
      serial |-> r.serial, process_name |-> r.process_name, pid |-> r.pid, act |-> r.act,
      init0 |-> c0.init, post0 |-> c0.post, fwd0 |-> c0.fwd, inst0 |-> c0.inst,
      granted0 |-> c0.granted, running0 |-> c0.running, resumed0 |-> c0.resumed,
      launched0 |-> launched, starts0 |-> starts ]

NoDevice ==
    /\ forwards = {}
    /\ installed = [ p \in Packages |-> None ]
    /\ granted = {}
    /\ running = {}
    /\ resumed = {}

---------------------------------------------------------------------------
Init ==
    /\ initial_autolaunch_delay = None
    /\ post_autolaunch_delay = None
    /\ clock = 0
    /\ is_stable \in BuildChannels
    /\ devices \in DeviceLists
    /\ NoDevice
    /\ launched = None
    /\ starts = "none"
    /\ last = None
    /\ prev = None

(* The bridge prints a digest, in upper or lower case, only for an installed package *)
DigestPrinted(args) ==
    /\ IsSome(args.client_autoinstall_path)
    /\ exists(join(Layout.static_resources_dir,
                   Unwrap(args.client_autoinstall_path).client_package_location))
    /\ IsSome(installed[get_application_ids(args.client_type, is_stable)[1]])

(* The required ports are iterated in either order when both are missing *)
BothMissing(args) == Cardinality({ args.control_port, args.stream_port } \ forwards) = 2

(* The call cleared the post-launch timer: it found no wired device, or it *)
(* saw the app running and resumed with the grace period of a launch over  *)
ClearedPostLaunch(c0, r) ==
    \/ r.ret = "No wired devices found"
    \/ /\ r.ret = "Ready" /\ r.pid = Some(TRUE) /\ r.act = Some(TRUE)
       /\ IsSome(c0.post) /\ c0.now - Unwrap(c0.post) >= POST_AUTOLAUNCH_SECS

(* "none": no start-application request since the last such call; "failed": *)
(* requests that all failed; "ok": a request that succeeded                *)
StartsAfter(c0, r) ==
    IF \E i \in 1..Len(r.log) : r.log[i].cmd = "start_application"
    THEN IF r.ret = "Err" THEN (IF starts = "ok" THEN "ok" ELSE "failed") ELSE "ok"
    ELSE IF ClearedPostLaunch(c0, r) THEN "none" ELSE starts

(* The effect of one call of WiredConnection::setup that ends as r *)
Returns(args, c0, r) ==
    /\ initial_autolaunch_delay' = r.init
    /\ post_autolaunch_delay' = r.post
    /\ forwards' = r.fwd
    /\ installed' = r.inst
    /\ granted' = r.granted
    /\ running' = r.running
    /\ resumed' = r.resumed
    /\ launched' = IF r.ret = "Starting ALVR client" THEN Some(clock) ELSE launched
    /\ starts' = StartsAfter(c0, r)
    /\ last' = Some(CallRecord(args, c0, r))
    /\ prev' = last
    /\ UNCHANGED << clock, is_stable, devices >>

(* One call of WiredConnection::setup, in which any one request may fail *)
Setup ==
    /\ last = None
    /\ \E args \in Args :
         LET r0 == setup(Enter(0), args, FALSE, FALSE)
         IN \E failAt \in 0..Len(r0.log) :
            \E flip \in IF BothMissing(args) THEN BOOLEAN ELSE { FALSE } :
            \E hexUpper \in IF DigestPrinted(args) THEN BOOLEAN ELSE { FALSE } :
              Returns(args, Enter(failAt), setup(Enter(failAt), args, flip, hexUpper))

(* A second call right after a call that returned a status, with the same  *)
(* arguments, before anything else happens                                 *)
SetupAgain ==
    /\ IsSome(last) /\ prev = None
    /\ Unwrap(last).failAt = 0
    /\ \E flip \in IF BothMissing(Unwrap(last).args) THEN BOOLEAN ELSE { FALSE } :
       \E hexUpper \in IF DigestPrinted(Unwrap(last).args) THEN BOOLEAN ELSE { FALSE } :
         Returns(Unwrap(last).args, Enter(0), setup(Enter(0), Unwrap(last).args, flip, hexUpper))

(* The caller takes the result of the call *)
Return ==
    /\ IsSome(last)
    /\ last' = None
    /\ prev' = None
    /\ UNCHANGED << initial_autolaunch_delay, post_autolaunch_delay, clock, is_stable,
                    devices, forwards, installed, granted, running, resumed, launched, starts >>

Idle == last = None /\ UNCHANGED << last, prev, starts, initial_autolaunch_delay, post_autolaunch_delay, is_stable >>

(* Time passes between calls *)
Tick ==
    /\ Idle
    /\ \E d \in TickSteps : clock + d <= MaxClock /\ clock' = clock + d
    /\ launched' = IF IsSome(launched) /\ clock' - Unwrap(launched) >= POST_AUTOLAUNCH_SECS
                   THEN None ELSE launched
    /\ UNCHANGED << devices, forwards, installed, granted, running, resumed >>

(* The environment: cables, the forward table, the packages and the app.   *)
(* A device that is unplugged leaves the model: the next one starts blank. *)
Plug ==
    /\ Idle
    /\ FirstWired(devices) = None
    /\ \E l \in DeviceLists : IsSome(FirstWired(l)) /\ devices' = l
    /\ UNCHANGED << launched, clock, forwards, installed, granted, running, resumed >>

Unplug ==
    /\ Idle
    /\ \E l \in DeviceLists : FirstWired(l) = None /\ l # devices /\ devices' = l
    /\ forwards' = {}
    /\ installed' = [ p \in Packages |-> None ]
    /\ granted' = {}
    /\ running' = {}
    /\ resumed' = {}
    /\ UNCHANGED << launched, clock >>

WiredPresent == IsSome(FirstWired(devices))

ForwardsDropped ==
    /\ Idle /\ WiredPresent
    /\ forwards # {}
    /\ forwards' = {}
    /\ UNCHANGED << launched, clock, devices, installed, granted, running, resumed >>

UserInstall ==
    /\ Idle /\ WiredPresent
    /\ \A q \in Packages : installed[q] = None
    /\ \E p \in UserPackages : installed' = [ installed EXCEPT ![p] = Some(1) ]
    /\ UNCHANGED << launched, clock, devices, forwards, granted, running, resumed >>

UserUninstall ==
    /\ Idle /\ WiredPresent
    /\ \E p \in Packages :
         /\ IsSome(installed[p])
         /\ installed' = [ installed EXCEPT ![p] = None ]
         /\ granted' = { g \in granted : g[1] # p }
         /\ running' = running \ { p }
         /\ resumed' = resumed \ { p }
    /\ UNCHANGED << launched, clock, devices, forwards >>

ProcessStart ==
    /\ Idle /\ WiredPresent
    /\ running = {}
    /\ \E p \in Packages :
         /\ IsSome(installed[p])
         /\ running' = { p }
    /\ UNCHANGED << launched, clock, devices, forwards, installed, granted, resumed >>

ProcessExit ==
    /\ Idle /\ WiredPresent
    /\ \E p \in running :
         /\ running' = running \ { p }
         /\ resumed' = resumed \ { p }
    /\ UNCHANGED << launched, clock, devices, forwards, installed, granted >>

ActivityResumed ==
    /\ Idle /\ WiredPresent
    /\ \E p \in running : p \notin resumed /\ resumed' = resumed \cup { p }
    /\ UNCHANGED << launched, clock, devices, forwards, installed, granted, running >>

ActivityPaused ==
    /\ Idle /\ WiredPresent
    /\ \E p \in resumed : resumed' = resumed \ { p }
    /\ UNCHANGED << launched, clock, devices, forwards, installed, granted, running >>

Next ==
    \/ Setup
    \/ SetupAgain
    \/ Return
    \/ Tick
    \/ Plug
    \/ Unplug
    \/ ForwardsDropped
    \/ UserInstall
    \/ UserUninstall
    \/ ProcessStart
    \/ ProcessExit
    \/ ActivityResumed
    \/ ActivityPaused

Spec == Init /\ [][Next]_vars

---------------------------------------------------------------------------
(* Polling: the caller invokes setup, waits one interval and invokes it     *)
(* again, with autolaunch on and no request failing.  A wired device stays  *)
(* connected, the client is installed from the package file, and the app    *)
(* gets its process and resumes its activity after it has been launched.    *)
(* The clock is counted up to MaxClock; the timers of this run have run out *)
(* by then.                                                                 *)
LiveArgs ==
    { a \in Args :
        /\ a.client_autolaunch
        /\ IsSome(a.client_autoinstall_path) => a.client_type = << "Store" >> }

LiveInit ==
    /\ initial_autolaunch_delay = None
    /\ post_autolaunch_delay = None
    /\ clock = 0
    /\ is_stable \in BuildChannels
    /\ devices \in { l \in DeviceLists : IsSome(FirstWired(l)) }
    /\ forwards \in { {}, { 9943 } }
    /\ installed = [ p \in Packages |->
                       IF p = PACKAGE_NAME_STORE
                       THEN Some(Files[<< "/", "res", "client.apk" >>].ver) ELSE None ]
    /\ granted = {}
    /\ running = {}
    /\ resumed = {}
    /\ launched = None
    /\ starts = "none"
    /\ last = None
    /\ prev = None

LivePoll ==
    /\ last = None
    /\ \E args \in LiveArgs :
       \E flip \in IF BothMissing(args) THEN BOOLEAN ELSE { FALSE } :
       \E hexUpper \in IF DigestPrinted(args) THEN BOOLEAN ELSE { FALSE } :
       \E r \in { setup(Enter(0), args, flip, hexUpper) } :
         Returns(args, Enter(0), r)

LiveTick ==
    /\ IsSome(last)
    /\ last' = None
    /\ prev' = None
    /\ clock' = IF \E d \in TickSteps : clock + d <= MaxClock
                THEN CHOOSE t \in { clock + d : d \in TickSteps } : t <= MaxClock
                ELSE clock
    /\ launched' = IF IsSome(launched) /\ clock' - Unwrap(launched) >= POST_AUTOLAUNCH_SECS
                   THEN None ELSE launched
    /\ UNCHANGED << initial_autolaunch_delay, post_autolaunch_delay, is_stable, devices,
                    forwards, installed, granted, running, resumed, starts >>

AppStarts == IsSome(post_autolaunch_delay) /\ ProcessStart

LiveNext ==
    \/ LivePoll
    \/ LiveTick
    \/ AppStarts
    \/ ActivityResumed

LiveSpec ==
    /\ LiveInit /\ [][LiveNext]_vars
    /\ WF_vars(LivePoll) /\ WF_vars(LiveTick)
    /\ SF_vars(AppStarts) /\ SF_vars(ActivityResumed)

---------------------------------------------------------------------------
(* Reading the record of the call that has just returned *)
Called == IsSome(last)
L == Unwrap(last)
P == Unwrap(prev)

Count(log, cmd) == Cardinality({ i \in 1..Len(log) : log[i].cmd = cmd })
Issued(cmd) == Count(L.log, cmd) > 0

(* The serials of a device list, read without the code's filter *)
NoWiredSerial(devs) ==
    \A i \in 1..Len(devs) :
        devs[i] = None \/ starts_with(Unwrap(devs[i]), LOOPBACK_PREFIX)

(* Seconds since the initial-wait episode of the call started *)
InitialElapsed == clock - (IF IsSome(L.init0) THEN Unwrap(L.init0) ELSE clock)

(* C1: when list-devices returns a list without a wired serial, setup returns *)
(* NotReady("No wired devices found") and leaves both timers unset.          *)
C1_NoWiredDevice ==
    (Called /\ L.failAt # 1 /\ NoWiredSerial(devices))
        => /\ L.ret = "No wired devices found"
           /\ initial_autolaunch_delay = None
           /\ post_autolaunch_delay = None

C1_Witness ==
    /\ Called /\ L.failAt # 1 /\ NoWiredSerial(devices) /\ devices # << >>
    /\ IsSome(L.init0) /\ IsSome(L.post0)

(* C2 as stated: with autolaunch enabled and no process running, setup waits *)
(* until 15 s after the episode start and then always starts the app.       *)
NoProcessWithAutolaunch == Called /\ L.failAt = 0 /\ L.args.client_autolaunch /\ L.pid = Some(FALSE)

C2_Original ==
    NoProcessWithAutolaunch
        => IF InitialElapsed < PRE_AUTOLAUNCH_SECS
           THEN L.ret = "Awaiting pre autolaunch delay" /\ ~Issued("start_application")
           ELSE L.ret = "Starting ALVR client" /\ Count(L.log, "start_application") = 1

(* C2 amended: the debounce applies while no post-launch episode is pending; *)
(* a pending episode gives "ALVR client is not running" and no start, and a *)
(* failing start-application ends the call with an error.                  *)
C2_PreLaunchDebounce ==
    (Called /\ L.args.client_autolaunch /\ L.pid = Some(FALSE))
        => IF IsSome(L.post0)
           THEN L.ret = "ALVR client is not running" /\ ~Issued("start_application")
           ELSE IF InitialElapsed < PRE_AUTOLAUNCH_SECS
           THEN L.ret = "Awaiting pre autolaunch delay" /\ ~Issued("start_application")
           ELSE /\ Count(L.log, "start_application") = 1
                /\ IF L.failAt = Len(L.log) THEN L.ret = "Err"
                   ELSE L.ret = "Starting ALVR client"

C2_Witness ==
    /\ Called /\ L.args.client_autolaunch /\ L.pid = Some(FALSE) /\ L.post0 = None
    /\ InitialElapsed = PRE_AUTOLAUNCH_SECS
    /\ L.ret = "Starting ALVR client"

(* C3 as stated: after a launch, every call that sees the app running and   *)
(* resumed less than 5 s after the launch returns "Awaiting post autolaunch *)
(* delay"; at 5 s or more of a pending timer it returns Ready and clears it. *)
SeesResumed == Called /\ L.act = Some(TRUE)

C3_Original ==
    /\ (SeesResumed /\ IsSome(L.launched0))
          => L.ret = "Awaiting post autolaunch delay"
    /\ (SeesResumed /\ IsSome(L.post0) /\ clock - Unwrap(L.post0) >= POST_AUTOLAUNCH_SECS)
          => L.ret = "Ready" /\ post_autolaunch_delay = None

(* C3 amended: the debounce holds while the post-launch timer set by the    *)
(* launch is still pending, that is, no call in between found no wired      *)
(* device; the pending timer is the instant of the launch.                  *)
C3_PostLaunchDebounce ==
    /\ (IsSome(post_autolaunch_delay) /\ IsSome(launched))
          => post_autolaunch_delay = launched
    /\ (SeesResumed /\ IsSome(L.post0))
          => IF clock - Unwrap(L.post0) < POST_AUTOLAUNCH_SECS
             THEN /\ L.ret = "Awaiting post autolaunch delay"
                  /\ post_autolaunch_delay = L.post0
             ELSE L.ret = "Ready" /\ post_autolaunch_delay = None

C3_Witness ==
    /\ SeesResumed /\ IsSome(L.post0) /\ L.launched0 = L.post0
    /\ L.ret = "Awaiting post autolaunch delay"

---------------------------------------------------------------------------
(* The auto-install step of the call that has just returned *)
Candidates == get_application_ids(L.args.client_type, is_stable)
FirstCandidate == Candidates[1]
Descriptor == Unwrap(L.args.client_autoinstall_path)
PackageFile == join(Layout.static_resources_dir, Descriptor.client_package_location)

AutoInstallCmds ==
    { "get_package_sha1", "read_file", "uninstall_package", "install_package",
      "grant_package_permission" }

AutoInstallLog == SelectSeq(L.log, LAMBDA q : q.cmd \in AutoInstallCmds)

Grants ==
    [ i \in 1..Len(Descriptor.permissions) |->
        Req("grant_package_permission", FirstCandidate, << Descriptor.permissions[i] >>) ]

(* The step ran, and ran to its end: candidate selection follows it *)
AutoInstallRan ==
    /\ Called /\ IsSome(L.serial)
    /\ IsSome(L.args.client_autoinstall_path)
    /\ exists(PackageFile) /\ Candidates # << >>
    /\ Issued("is_package_installed")

(* The installed digest equals the local one ignoring case: both in lower case *)
DigestsMatch(inst) ==
    /\ IsSome(inst[FirstCandidate])
    /\ Sha1Hex([ pkg |-> FirstCandidate, ver |-> Unwrap(inst[FirstCandidate]) ])
           = Sha1Hex(Files[PackageFile])

(* C4: the auto-install step issues (a) install then the grants when no     *)
(* digest is installed, (b) uninstall, install, then the grants when the    *)
(* digests differ ignoring case, (c) nothing when they are equal.           *)
C4_AutoInstallTable ==
    AutoInstallRan
        => AutoInstallLog =
             IF L.inst0[FirstCandidate] = None
             THEN << Req("get_package_sha1", FirstCandidate, << >>),
                     Req("install_package", "", PackageFile) >> \o Grants
             ELSE IF ~DigestsMatch(L.inst0)
             THEN << Req("get_package_sha1", FirstCandidate, << >>),
                     Req("read_file", "", PackageFile),
                     Req("uninstall_package", FirstCandidate, << >>),
                     Req("install_package", "", PackageFile) >> \o Grants
             ELSE << Req("get_package_sha1", FirstCandidate, << >>),
                     Req("read_file", "", PackageFile) >>

C4_Witness ==
    /\ AutoInstallRan /\ IsSome(L.inst0[FirstCandidate]) /\ ~DigestsMatch(L.inst0)
    /\ Count(L.log, "uninstall_package") = 1
    /\ Count(L.log, "grant_package_permission") = Len(Descriptor.permissions)

---------------------------------------------------------------------------
(* The port step of the call ran to its end *)
PortStepRan ==
    /\ Called /\ IsSome(L.serial)
    /\ (Issued("get_package_sha1") \/ Issued("is_package_installed"))

RequiredPorts == { L.args.control_port, L.args.stream_port }

ForwardRequests == SelectSeq(L.log, LAMBDA q : q.cmd = "forward_port")

ForwardedByCall == { ForwardRequests[i].arg[1] : i \in 1..Len(ForwardRequests) }

(* C5 as stated: one forward request for each of the two required ports that *)
(* is not forwarded, so two when neither is; no forward is removed; the     *)
(* required ports are forwarded when the call returns a status.             *)
C5_Original ==
    PortStepRan
        => /\ Len(ForwardRequests) =
                (IF L.args.control_port \in L.fwd0 THEN 0 ELSE 1)
              + (IF L.args.stream_port \in L.fwd0 THEN 0 ELSE 1)
           /\ L.fwd0 \subseteq forwards
           /\ RequiredPorts \subseteq forwards

(* C5 amended: one forward request for each distinct required port that is  *)
(* not forwarded; two when the two ports differ and neither is forwarded.   *)
C5_PortReconciliation ==
    PortStepRan
        => /\ ForwardedByCall = RequiredPorts \ L.fwd0
           /\ Len(ForwardRequests) = Cardinality(RequiredPorts \ L.fwd0)
           /\ L.fwd0 \subseteq forwards
           /\ RequiredPorts \subseteq forwards

C5_Witness ==
    /\ PortStepRan
    /\ L.args.control_port # L.args.stream_port
    /\ Cardinality(L.fwd0 \cap RequiredPorts) = 1
    /\ Len(ForwardRequests) = 1

---------------------------------------------------------------------------
(* Two calls in immediate succession: prev is the first, last the second.  *)
(* Both have the same arguments, no request of either fails and nothing    *)
(* happens between them.                                                    *)
Twice == IsSome(prev) /\ IsSome(last)

Repeats(cmd) ==
    \E i \in 1..Len(L.log), j \in 1..Len(P.log) :
        /\ L.log[i].cmd = cmd /\ P.log[j].cmd = cmd
        /\ L.log[i].arg = P.log[j].arg

(* C6 as stated: the second call returns the status of the first and repeats *)
(* no install and no forward request of the first.                          *)
C6_Original ==
    Twice => /\ L.ret = P.ret
             /\ ~Repeats("install_package")
             /\ ~Repeats("forward_port")

(* C6 amended: the status is the same except after "Starting ALVR client",  *)
(* which is followed by "ALVR client is not running"; the second call issues *)
(* no forward request, and no install request unless the package file does  *)
(* not install the first candidate.                                         *)
C6_Idempotence ==
    Twice => /\ IF P.ret = "Starting ALVR client"
                THEN L.ret = "ALVR client is not running"
                ELSE L.ret = P.ret
             /\ ~Issued("forward_port")
             /\ Issued("install_package") => Files[PackageFile].pkg # FirstCandidate

C6_Witness ==
    /\ Twice
    /\ Count(P.log, "install_package") = 1 /\ Count(P.log, "forward_port") = 2
    /\ ~Issued("install_package") /\ ~Issued("forward_port")
    /\ L.ret = P.ret

---------------------------------------------------------------------------
(* C7: with a wired device, both required ports forwarded, the target       *)
(* package installed with the digest of the local file (when a descriptor   *)
(* is supplied), its process running, its activity resumed and no pending   *)
(* post-launch timer, setup returns Ready and issues no forward, install,   *)
(* uninstall, grant or start-application request.                           *)
ReadyScenario ==
    /\ Called /\ IsSome(L.serial) /\ L.failAt = 0
    /\ RequiredPorts \subseteq L.fwd0
    /\ IsSome(L.inst0[FirstCandidate])
    /\ (IsSome(L.args.client_autoinstall_path) /\ exists(PackageFile)) => DigestsMatch(L.inst0)
    /\ FirstCandidate \in L.running0
    /\ FirstCandidate \in L.resumed0
    /\ L.post0 = None

C7_ReadyScenario ==
    ReadyScenario
        => /\ L.ret = "Ready"
           /\ \A i \in 1..Len(L.log) :
                 L.log[i].cmd \notin { "forward_port", "install_package", "uninstall_package",
                                       "grant_package_permission", "start_application" }

C7_Witness ==
    /\ ReadyScenario
    /\ IsSome(L.args.client_autoinstall_path)
    /\ L.ret = "Ready"

(* C8: with a wired device and no candidate installed after the auto-install *)
(* step, setup returns NotReady("No suitable ALVR client is installed"),    *)
(* leaves the post-launch timer as it was and the initial-wait timer set.   *)
NoCandidateInstalled ==
    \A i \in 1..Len(Candidates) : installed[Candidates[i]] = None

C8_NoSuitableClient ==
    (Called /\ IsSome(L.serial) /\ L.ret # "Err" /\ NoCandidateInstalled)
        => /\ L.ret = "No suitable ALVR client is installed"
           /\ post_autolaunch_delay = L.post0
           /\ IsSome(initial_autolaunch_delay)
           /\ IsSome(L.init0) => initial_autolaunch_delay = L.init0

C8_Witness ==
    /\ Called /\ IsSome(L.serial) /\ NoCandidateInstalled
    /\ L.ret = "No suitable ALVR client is installed"
    /\ IsSome(L.post0) /\ post_autolaunch_delay = L.post0

(* C9: a setup call in which a bridge request fails ends with an error,     *)
(* never with Ready or a NotReady status.                                   *)
BridgeRequestFailed ==
    /\ Called /\ L.failAt # 0
    /\ L.log[L.failAt].cmd # "read_file"

C9_ErrorsNotConflated == BridgeRequestFailed => L.ret = "Err"

(* C10 as stated: a call that ends with an error leaves both timers as they *)
(* were before the call.                                                    *)
C10_Original ==
    (Called /\ L.ret = "Err")
        => /\ initial_autolaunch_delay = L.init0
           /\ post_autolaunch_delay = L.post0

(* C10 amended: a call that ends with an error leaves the post-launch timer *)
(* as it was and clears neither timer; the initial-wait timer, when unset   *)
(* before the call, is set to the time of the call once list-devices has    *)
(* returned a wired device.                                                 *)
C10_TimersOnError ==
    (Called /\ L.ret = "Err")
        => /\ post_autolaunch_delay = L.post0
           /\ initial_autolaunch_delay =
                 IF IsSome(L.init0) \/ L.failAt = 1 THEN L.init0 ELSE Some(clock)

C10_Witness ==
    /\ Called /\ L.ret = "Err"
    /\ L.init0 = None /\ initial_autolaunch_delay = Some(clock)
    /\ L.log[L.failAt].cmd = "list_forwarded_ports"

---------------------------------------------------------------------------
(* C11: the initial-wait timer is set by the first call that finds a wired  *)
(* device while it is unset, is left as it is by every later call that      *)
(* finds a wired device, and is cleared by every call that finds no wired   *)
(* device and by no other call.                                             *)
C11_InitialWaitTimer ==
    Called
        => /\ (IsSome(L.serial) /\ L.init0 = None) => initial_autolaunch_delay = Some(clock)
           /\ (IsSome(L.serial) /\ IsSome(L.init0)) => initial_autolaunch_delay = L.init0
           /\ (IsSome(initial_autolaunch_delay) /\ L.init0 = None) => IsSome(L.serial)
           /\ L.ret = "No wired devices found" => initial_autolaunch_delay = None
           /\ (initial_autolaunch_delay = None /\ IsSome(L.init0))
                 => L.ret = "No wired devices found"

C11_Witness ==
    /\ Called /\ IsSome(L.serial)
    /\ IsSome(L.init0) /\ Unwrap(L.init0) < clock
    /\ initial_autolaunch_delay = L.init0

---------------------------------------------------------------------------
PostSetByCall == IsSome(post_autolaunch_delay) /\ post_autolaunch_delay # L.post0
PostClearedByCall == IsSome(L.post0) /\ post_autolaunch_delay = None

GraceOverAndResumed ==
    /\ L.ret = "Ready" /\ L.pid = Some(TRUE) /\ L.act = Some(TRUE)
    /\ clock - Unwrap(L.post0) >= POST_AUTOLAUNCH_SECS

(* C12 as stated: the post-launch timer is set only by the call that issues *)
(* start-application, once per episode, and goes from set to unset only in  *)
(* a call in which its 5 seconds have elapsed and the app is seen running   *)
(* and resumed.                                                             *)
C12_Original ==
    Called
        => /\ PostSetByCall => (L.post0 = None /\ Count(L.log, "start_application") = 1)
           /\ PostClearedByCall => GraceOverAndResumed

(* C12 amended: it goes from set to unset only in such a call or in a call  *)
(* that finds no wired device.                                              *)
C12_PostLaunchTimer ==
    Called
        => /\ PostSetByCall
                => /\ L.post0 = None /\ Count(L.log, "start_application") = 1
                   /\ L.ret = "Starting ALVR client"
                   /\ post_autolaunch_delay = Some(clock)
           /\ PostClearedByCall
                => (L.ret = "No wired devices found" \/ GraceOverAndResumed)

C12_Witness ==
    /\ Called /\ PostClearedByCall
    /\ GraceOverAndResumed
    /\ L.args.client_autolaunch

---------------------------------------------------------------------------
(* The packages named by the requests of the call *)
TargetsOf(cmds) == { L.log[i].pkg : i \in { j \in 1..Len(L.log) : L.log[j].cmd \in cmds } }

AutoInstallTargets ==
    TargetsOf({ "get_package_sha1", "uninstall_package", "grant_package_permission" })

ProcessTargets ==
    TargetsOf({ "get_process_id", "is_activity_resumed", "start_application" })

IsInstalledQueryFailed ==
    L.failAt # 0 /\ L.log[L.failAt].cmd = "is_package_installed"

FirstInstalled(p) ==
    \E i \in 1..Len(Candidates) :
        /\ Candidates[i] = p /\ IsSome(installed[p])
        /\ \A j \in 1..(i - 1) : installed[Candidates[j]] = None

(* C13 as stated: the client of a call is the first installed candidate,    *)
(* and the auto-install requests name the same package as the process-id,   *)
(* activity and start-application requests of the call.                     *)
C13_Original ==
    Called
        => /\ IsSome(L.process_name) => FirstInstalled(Unwrap(L.process_name))
           /\ Cardinality(AutoInstallTargets \cup ProcessTargets) <= 1

(* C13 amended: the auto-install requests name the first candidate; the     *)
(* process-id, activity and start-application requests name the first       *)
(* candidate reported installed; the two are the same package when the      *)
(* package file installs the first candidate and no is-package-installed    *)
(* query fails.                                                             *)
C13_SingleClient ==
    Called
        => /\ AutoInstallTargets \subseteq { FirstCandidate }
           /\ ProcessTargets \subseteq { p \in Packages : L.process_name = Some(p) }
           /\ IsSome(L.process_name) => IsSome(installed[Unwrap(L.process_name)])
           /\ (IsSome(L.process_name) /\ ~IsInstalledQueryFailed)
                 => FirstInstalled(Unwrap(L.process_name))
           /\ (AutoInstallTargets # {} /\ IsSome(L.process_name) /\ ~IsInstalledQueryFailed
                 /\ Files[PackageFile].pkg = FirstCandidate)
                 => L.process_name = Some(FirstCandidate)

C13_Witness ==
    /\ Called /\ Issued("install_package") /\ Issued("get_process_id")
    /\ AutoInstallTargets = { FirstCandidate }
    /\ ProcessTargets = { FirstCandidate }

---------------------------------------------------------------------------
NoLaunchBranch ==
    /\ Called /\ L.pid = Some(FALSE)
    /\ (~L.args.client_autolaunch \/ IsSome(L.post0))

(* C14 as stated: with the selected package installed and no process, when  *)
(* autolaunch is off or the post-launch timer is set, setup returns "ALVR   *)
(* client is not running", issues no start-application and changes neither  *)
(* timer; start-application is issued only by a call with autolaunch on.    *)
C14_Original ==
    /\ NoLaunchBranch
          => /\ L.ret = "ALVR client is not running"
             /\ ~Issued("start_application")
             /\ initial_autolaunch_delay = L.init0
             /\ post_autolaunch_delay = L.post0
    /\ (Called /\ Issued("start_application")) => L.args.client_autolaunch

(* C14 amended: the post-launch timer is unchanged; the initial-wait timer  *)
(* is unchanged when it was set and is set to the time of the call when it  *)
(* was not.                                                                 *)
C14_NoLaunch ==
    /\ NoLaunchBranch
          => /\ L.ret = "ALVR client is not running"
             /\ ~Issued("start_application")
             /\ initial_autolaunch_delay = (IF IsSome(L.init0) THEN L.init0 ELSE Some(clock))
             /\ post_autolaunch_delay = L.post0
    /\ (Called /\ Issued("start_application")) => L.args.client_autolaunch

C14_Witness ==
    /\ NoLaunchBranch
    /\ L.args.client_autolaunch /\ IsSome(L.post0)
    /\ InitialElapsed >= PRE_AUTOLAUNCH_SECS
    /\ L.ret = "ALVR client is not running"

---------------------------------------------------------------------------
(* The status the readiness ladder assigns to a device state, the timers    *)
(* before the call and the clock: the reason of the first rung that fails.  *)
SelectedPackage == CHOOSE p \in Packages : FirstInstalled(p)

LadderStatus ==
    IF ~WiredPresent THEN "No wired devices found"
    ELSE IF NoCandidateInstalled THEN "No suitable ALVR client is installed"
    ELSE IF SelectedPackage \notin running
         THEN IF L.args.client_autolaunch /\ L.post0 = None
              THEN IF InitialElapsed < PRE_AUTOLAUNCH_SECS
                   THEN "Awaiting pre autolaunch delay"
                   ELSE "Starting ALVR client"
              ELSE "ALVR client is not running"
    ELSE IF SelectedPackage \notin resumed THEN "ALVR client is paused"
    ELSE IF IsSome(L.post0) /\ clock - Unwrap(L.post0) < POST_AUTOLAUNCH_SECS
         THEN "Awaiting post autolaunch delay"
    ELSE "Ready"

---------------------------------------------------------------------------
Stage(cmd) ==
    CASE cmd = "list_devices" -> 1
      [] cmd = "list_forwarded_ports" -> 2
      [] cmd = "forward_port" -> 3
      [] cmd = "get_package_sha1" -> 4
      [] cmd = "read_file" -> 5
      [] cmd = "uninstall_package" -> 6
      [] cmd = "install_package" -> 7
      [] cmd = "grant_package_permission" -> 8
      [] cmd = "is_package_installed" -> 9
      [] cmd = "get_process_id" -> 10
      [] OTHER -> 11

(* C16: the requests of a call follow the step order, and a step that ends  *)
(* the call is followed by no request of a later step; the auto-install     *)
(* step precedes candidate selection, so a package installed in a call is   *)
(* selected in that call.                                                   *)
C16_StepOrder ==
    Called
        => /\ \A i, j \in 1..Len(L.log) : i < j => Stage(L.log[i].cmd) <= Stage(L.log[j].cmd)
           /\ L.ret = "No wired devices found" => Len(L.log) = 1
           /\ L.ret = "No suitable ALVR client is installed"
                 => \A i \in 1..Len(L.log) : Stage(L.log[i].cmd) < 10
           /\ L.pid = Some(FALSE) => ~Issued("is_activity_resumed")
           /\ (Issued("install_package") /\ L.ret # "Err" /\ ~IsInstalledQueryFailed
                 /\ Files[PackageFile].pkg = FirstCandidate)
                 => L.process_name = Some(FirstCandidate)

C16_Witness ==
    /\ Called /\ Issued("install_package")
    /\ L.inst0[FirstCandidate] = None
    /\ L.process_name = Some(FirstCandidate)
    /\ Issued("get_process_id")

---------------------------------------------------------------------------
(* C18: in every state, a post-launch timer that is set comes with an       *)
(* initial-wait timer that is set and at least 15 seconds older; so a call  *)
(* that returns "ALVR client is not running" for a pending post-launch      *)
(* timer is past the pre-launch delay.                                      *)
C18_TimerOrder ==
    /\ IsSome(post_autolaunch_delay)
          => /\ IsSome(initial_autolaunch_delay)
             /\ Unwrap(post_autolaunch_delay) - Unwrap(initial_autolaunch_delay)
                   >= PRE_AUTOLAUNCH_SECS
    /\ (Called /\ IsSome(L.post0) /\ L.ret = "ALVR client is not running")
          => /\ IsSome(L.init0)
             /\ clock - Unwrap(L.init0) >= PRE_AUTOLAUNCH_SECS

C18_Witness ==
    /\ Called /\ L.ret = "Err"
    /\ IsSome(post_autolaunch_delay) /\ IsSome(initial_autolaunch_delay)

---------------------------------------------------------------------------
(* C19 as stated: a call issues start-application only when no such request *)
(* was issued since the last call that cleared the post-launch timer, and   *)
(* never while the timer is pending.                                        *)
C19_Original ==
    (Called /\ Issued("start_application"))
        => (L.starts0 = "none" /\ L.post0 = None)

(* C19 amended: a call issues start-application only when no such request   *)
(* has succeeded since the last call that cleared the post-launch timer,    *)
(* and never while the timer is pending; a request that failed leaves the   *)
(* timer unset and is repeated.                                             *)
C19_NoRedundantRelaunch ==
    /\ (Called /\ Issued("start_application"))
          => (L.starts0 # "ok" /\ L.post0 = None /\ Count(L.log, "start_application") = 1)
    /\ starts = "ok" => IsSome(post_autolaunch_delay)
    /\ IsSome(post_autolaunch_delay) => starts = "ok"

C19_Witness ==
    /\ Called /\ Issued("start_application")
    /\ L.starts0 = "failed"
    /\ L.ret = "Starting ALVR client"

---------------------------------------------------------------------------
(* The package files of the descriptors and what they install *)
InstalledFromFile(d, p) ==
    LET path == join(Layout.static_resources_dir, d.client_package_location)
    IN /\ exists(path)
       /\ Files[path].pkg = p
       /\ installed[p] = Some(Files[path].ver)

(* C20: whenever a package installed by the auto-install step is on the     *)
(* device with the digest of the local file, every permission of the        *)
(* descriptor is granted to it.                                             *)
C20_GrantsComplete ==
    \A d \in AutoInstallConfigs : \A p \in Packages :
        InstalledFromFile(d, p)
            => \A i \in 1..Len(d.permissions) : << p, d.permissions[i] >> \in granted

---------------------------------------------------------------------------
(* C17: under polling with autolaunch on, a wired device connected, the     *)
(* client installed, no request failing and the app coming up after its     *)
(* launch, setup eventually returns Ready, and from the first Ready on      *)
(* every call returns Ready.                                                *)
ReturnedReady == Called /\ L.ret = "Ready"

====
